---- MODULE Spec2Model ----
(***************************************************************************)
(* The notification gateway of app.py: four request handlers               *)
(* (send_to_user, send_to_all, send_to_topic, get_users) over the          *)
(* Firestore collection 'usuarios_registrados' and the FCM messaging       *)
(* client.  One request is handled at a time; every external operation     *)
(* (a Directory read, a delivery call) is appended to the log `io` in the  *)
(* order the handler issues it.                                            *)
(***************************************************************************)
EXTENDS Integers, Sequences, FiniteSets, TLC

VARIABLES
    usuarios_registrados,  \* the collection: a sequence of documents, in enumeration order
    pc,                    \* position of the handler of the current request
    route,                 \* which route the current request came in on
    payload,               \* the JSON body of the current request
    user_data,             \* send_to_user: the looked-up document's fields
    tokens,                \* send_to_all: the collected tokens
    i,                     \* send_to_all: loop index (0-based start of the next batch)
    total_success,         \* send_to_all: accumulator
    total_failure,         \* send_to_all: accumulator
    io,                    \* log of external operations of the current request
    response               \* the HTTP response of the current request

vars == <<usuarios_registrados, pc, route, payload, user_data, tokens, i,
          total_success, total_failure, io, response>>

----------------------------------------------------------------------------
(* Bounds of the model *)

\* largest number of documents of a directory of Spec
MaxUsers == 2
\* SpecBatch: directories hold up to MaxBatches full batches (plus one document)
MaxBatches == 2
\* SpecBatch: every Stride-th document (Stride in 2..MaxStride) may lack a usable token
MaxStride == 2

----------------------------------------------------------------------------
(* JSON / Python values *)

None == [t |-> "null", v |-> ""]
Str(s) == [t |-> "str", v |-> s]

\* a dict is a function from a set of keys to values; {} is the empty dict
EmptyDict == [k \in {} |-> None]

\* dict.get(key): None when the key is absent
Get(d, key) == IF key \in DOMAIN d THEN d[key] ELSE None

\* Python truthiness of a str-or-None value: None and '' are falsy
Truthy(val) == val # None /\ val # Str("")

Min(a, b) == IF a <= b THEN a ELSE b

----------------------------------------------------------------------------
(* The Directory *)

TokenKinds == {"absent", "null", "empty", "token"}
EmailKinds == {"absent", "present"}

\* the document at position j, with the given kinds of fcmToken and email
Document(j, tk, ek) ==
    LET tokenPart == CASE tk = "absent" -> EmptyDict
                       [] tk = "null"   -> [k \in {"fcmToken"} |-> None]
                       [] tk = "empty"  -> [k \in {"fcmToken"} |-> Str("")]
                       [] OTHER         -> [k \in {"fcmToken"} |-> Str("tok" \o ToString(j))]
        emailPart == IF ek = "present"
                     THEN [k \in {"email"} |-> Str("m" \o ToString(j) \o "@x")]
                     ELSE EmptyDict
    IN  [id |-> "u" \o ToString(j), fields |-> tokenPart @@ emailPart]

\* Spec: every directory of at most MaxUsers documents
SmallDirectories ==
    UNION { { [j \in 1..n |-> Document(j, k[j][1], k[j][2])]
              : k \in [1..n -> TokenKinds \X EmailKinds] }
            : n \in 0..MaxUsers }

\* Enviar en lotes de 500
batch_size == 500

\* SpecBatch: numbers of documents at and next to the multiples of batch_size
BatchSizes ==
    { n \in 0..(MaxBatches * batch_size + 1) :
        \E k \in 0..MaxBatches : n \in {k * batch_size - 1, k * batch_size, k * batch_size + 1} }

\* SpecBatch: n documents with a token and an email, except that (stride > 0)
\* every stride-th document has the token kind tk
LargeDirectory(n, stride, tk) ==
    [j \in 1..n |->
        Document(j, IF stride > 0 /\ j % stride = 0 THEN tk ELSE "token", "present")]

LargeDirectories ==
    { LargeDirectory(n, 0, "token") : n \in BatchSizes }
    \cup { LargeDirectory(n, s, tk) :
             n \in BatchSizes, s \in 2..MaxStride, tk \in TokenKinds \ {"token"} }

\* document(user_id).get(): the snapshot of the document with that id
user_doc(user_id) ==
    IF \E j \in DOMAIN usuarios_registrados : usuarios_registrados[j].id = user_id
    THEN LET j == CHOOSE j \in DOMAIN usuarios_registrados :
                      usuarios_registrados[j].id = user_id
         IN  [exists |-> TRUE, fields |-> usuarios_registrados[j].fields]
    ELSE [exists |-> FALSE, fields |-> EmptyDict]

\* where('fcmToken', '!=', None).stream(): the documents whose field exists and is not null
\* (yielded here in the collection's enumeration order)
WhereNotNull(docs) ==
    SelectSeq(docs, LAMBDA d : "fcmToken" \in DOMAIN d.fields /\ d.fields["fcmToken"] # None)

----------------------------------------------------------------------------
(* Requests *)

Routes == {"user", "all", "topic", "users"}

\* the fields each POST route checks, in the order the code lists them
Required(r) ==
    CASE r = "user"  -> <<"userId", "title", "body">>
      [] r = "all"   -> <<"title", "body">>
      [] r = "topic" -> <<"topic", "title", "body">>
      [] OTHER       -> <<>>

FieldValues(key) ==
    CASE key = "userId" -> {None, Str(""), Str("u1"), Str("u2"), Str("u0")}
      [] key = "title"  -> {None, Str(""), Str("Hi")}
      [] key = "body"   -> {None, Str(""), Str("There")}
      [] key = "topic"  -> {None, Str(""), Str("news")}

\* all dicts over a subset of `keys`, key k taking a value of FieldValues(k)
Dicts(keys) ==
    UNION { { f \in [S -> UNION { FieldValues(k) : k \in S }] :
                \A k \in S : f[k] \in FieldValues(k) }
            : S \in SUBSET keys }

Range(seq) == { seq[n] : n \in DOMAIN seq }

NoPayload == [kind |-> "none", obj |-> EmptyDict]

\* the bodies a request on route r may carry: no JSON body, the JSON null, a JSON
\* array, or a JSON object over the route's fields
Payloads(r) ==
    IF r = "users" THEN {NoPayload}
    ELSE { NoPayload, [kind |-> "null", obj |-> EmptyDict], [kind |-> "array", obj |-> EmptyDict] }
         \cup { [kind |-> "object", obj |-> d] : d \in Dicts(Range(Required(r))) }

\* what request.get_json() followed by data.get(...) raises on a body that is no
\* JSON object: get_json raises (or returns None, by Flask version) when there is
\* no JSON body; None and a list have no attribute 'get'
JsonFailure(p) ==
    IF p.kind = "none" THEN {"UnsupportedMediaType", "AttributeError"}
    ELSE {"AttributeError"}

\* not data.get(f1) or not data.get(f2) ...
MissingRequired(r, data) ==
    \E n \in DOMAIN Required(r) : ~Truthy(Get(data, Required(r)[n]))

MessageIds == {"projects/p/messages/1", "projects/p/messages/2"}

----------------------------------------------------------------------------
(* Responses *)

\* variant: the 400 lists only the fields the request lacks
ValidationResponse_missing(r, data) ==
    [status |-> 400,
     body   |-> [error |-> "Faltan datos requeridos",
                 required |-> SelectSeq(Required(r), LAMBDA f : ~Truthy(Get(data, f)))]]

\* the 400 of the validation step
ValidationResponse(r, data) ==
    [status |-> 400,
     body   |-> [error |-> "Faltan datos requeridos", required |-> Required(r)]]

\* the except branch of each handler
ErrorResponse(r, e) ==
    IF r = "user"
    THEN [status |-> 500, body |-> [error |-> "Error al enviar notificacion", details |-> e]]
    ELSE [status |-> 500, body |-> [error |-> e]]

NoResponse == [status |-> 0, body |-> EmptyDict]

Respond(resp) == response' = resp /\ pc' = "done"

----------------------------------------------------------------------------
(* The handlers *)

Init ==
    /\ usuarios_registrados \in SmallDirectories
    /\ pc = "idle"
    /\ route = "users"
    /\ payload = NoPayload
    /\ user_data = EmptyDict
    /\ tokens = <<>>
    /\ i = 0
    /\ total_success = 0
    /\ total_failure = 0
    /\ io = <<>>
    /\ response = NoResponse

InitBatch ==
    /\ usuarios_registrados \in LargeDirectories
    /\ pc = "idle"
    /\ route = "users"
    /\ payload = NoPayload
    /\ user_data = EmptyDict
    /\ tokens = <<>>
    /\ i = 0
    /\ total_success = 0
    /\ total_failure = 0
    /\ io = <<>>
    /\ response = NoResponse

\* first position of the handler of route r
Entry(r) == IF r = "users" THEN "list" ELSE "validate"

\* A request arrives and Flask dispatches it to the route's handler.
Receive ==
    /\ pc = "idle"
    /\ \E r \in Routes : \E p \in Payloads(r) :
         /\ route' = r
         /\ payload' = p
         /\ pc' = Entry(r)
    /\ UNCHANGED <<usuarios_registrados, user_data, tokens, i, total_success,
                   total_failure, io, response>>

\* The handler has returned its response: its locals are gone, nothing of the
\* request is retained in the process.
Return ==
    /\ pc = "done"
    /\ pc' = "idle"
    /\ route' = "users"
    /\ payload' = NoPayload
    /\ user_data' = EmptyDict
    /\ tokens' = <<>>
    /\ i' = 0
    /\ total_success' = 0
    /\ total_failure' = 0
    /\ io' = <<>>
    /\ response' = NoResponse
    /\ UNCHANGED usuarios_registrados

\* data = request.get_json(); if not data.get(..) or ...: return 400
Validate(r, next) ==
    /\ pc = "validate"
    /\ route = r
    /\ IF payload.kind # "object"
       THEN \E e \in JsonFailure(payload) : Respond(ErrorResponse(r, e))
       ELSE IF MissingRequired(r, payload.obj)
            THEN Respond(ValidationResponse(r, payload.obj))
            ELSE /\ pc' = next
                 /\ UNCHANGED response
    /\ UNCHANGED <<usuarios_registrados, route, payload, user_data, tokens, i,
                   total_success, total_failure, io>>

send_to_user_validate == Validate("user", "lookup")

\* variant: user_doc.exists is not checked
LookupOutcome_noExists(doc) ==
    IF ~Truthy(Get(doc.fields, "fcmToken")) THEN "no_token" ELSE "found"

\* variant: the token check is `fcm_token is None`
LookupOutcome_isNone(doc) ==
    IF ~doc.exists THEN "not_found"
    ELSE IF Get(doc.fields, "fcmToken") = None THEN "no_token"
    ELSE "found"

\* the outcome of the lookup of send_to_user on a snapshot: the 404, the 400 of
\* the missing token, or "found"
LookupOutcome(doc) ==
    IF ~doc.exists THEN "not_found"
    ELSE IF ~Truthy(Get(doc.fields, "fcmToken")) THEN "no_token"
    ELSE "found"

\* user_doc = db.collection('usuarios_registrados').document(user_id).get()
send_to_user_lookup ==
    /\ pc = "lookup"
    /\ route = "user"
    /\ LET user_id == payload.obj["userId"]
           doc == user_doc(user_id.v)
       IN  \/ /\ io' = Append(io, [op |-> "get", id |-> user_id.v, raised |-> TRUE])
              /\ Respond(ErrorResponse("user", "DirectoryError"))
              /\ UNCHANGED user_data
           \/ /\ io' = Append(io, [op |-> "get", id |-> user_id.v, raised |-> FALSE])
              /\ CASE LookupOutcome(doc) = "not_found" ->
                        /\ Respond([status |-> 404,
                                    body |-> [error |-> "Usuario no encontrado",
                                              userId |-> user_id]])
                        /\ UNCHANGED user_data
                   [] LookupOutcome(doc) = "no_token" ->
                        /\ Respond([status |-> 400,
                                    body |-> [error |-> "El usuario no tiene un token FCM",
                                              userId |-> user_id]])
                        /\ UNCHANGED user_data
                   [] OTHER ->
                        /\ user_data' = doc.fields
                        /\ pc' = "send"
                        /\ UNCHANGED response
    /\ UNCHANGED <<usuarios_registrados, route, payload, tokens, i,
                   total_success, total_failure>>

\* message = messaging.Message(..., token=fcm_token, ...); response = messaging.send(message)
\* The optional data and channelId are passed through into the message and decide
\* no branch; `raised` stands for any exception of lines 98-116 (building the
\* message from them, or the backend refusing it).
send_to_user_send ==
    /\ pc = "send"
    /\ route = "user"
    /\ LET message == [token |-> Get(user_data, "fcmToken"),
                       title |-> payload.obj["title"],
                       body  |-> payload.obj["body"]]
       IN  \/ /\ io' = Append(io, [op |-> "send", message |-> message, raised |-> TRUE,
                                   result |-> ""])
              /\ Respond(ErrorResponse("user", "DeliveryError"))
           \/ \E mid \in MessageIds :
                /\ io' = Append(io, [op |-> "send", message |-> message, raised |-> FALSE,
                                     result |-> mid])
                /\ Respond([status |-> 200,
                            body |-> [success   |-> TRUE,
                                      message   |-> "Notificacion enviada exitosamente",
                                      messageId |-> mid,
                                      userId    |-> payload.obj["userId"],
                                      email     |-> Get(user_data, "email")]])
    /\ UNCHANGED <<usuarios_registrados, route, payload, user_data, tokens, i,
                   total_success, total_failure>>

send_to_all_validate == Validate("all", "query")

\* variant: the loop appends every token the query yields, without `if fcm_token`
CollectTokens_noCheck(users) ==
    [n \in DOMAIN users |-> Get(users[n].fields, "fcmToken")]

\* for user in users: fcm_token = user.to_dict().get('fcmToken'); if fcm_token: tokens.append(fcm_token)
CollectTokens(users) ==
    LET got == [n \in DOMAIN users |-> Get(users[n].fields, "fcmToken")]
    IN  SelectSeq(got, Truthy)

\* users = users_ref.where('fcmToken', '!=', None).stream(); collect; if not tokens: return 400
send_to_all_query ==
    /\ pc = "query"
    /\ route = "all"
    /\ \/ /\ io' = Append(io, [op |-> "where", raised |-> TRUE])
          /\ Respond(ErrorResponse("all", "DirectoryError"))
          /\ UNCHANGED tokens
       \/ /\ io' = Append(io, [op |-> "where", raised |-> FALSE])
          /\ tokens' = CollectTokens(WhereNotNull(usuarios_registrados))
          /\ IF tokens' = <<>>
             THEN Respond([status |-> 400,
                           body |-> [error |-> "No hay usuarios con tokens FCM"]])
             ELSE /\ pc' = "loop"
                  /\ UNCHANGED response
    /\ i' = 0
    /\ total_success' = 0
    /\ total_failure' = 0
    /\ UNCHANGED <<usuarios_registrados, route, payload, user_data>>

\* variant: the slice is one too long, tokens[i:i + batch_size + 1]
Batch_inclusive(toks, start) == SubSeq(toks, start + 1, Min(start + batch_size + 1, Len(toks)))

\* batch = tokens[i:i + batch_size]
Batch(toks, start) == SubSeq(toks, start + 1, Min(start + batch_size, Len(toks)))

\* the success counts a BatchResponse for n tokens may report (its failure_count
\* is n minus its success_count)
SuccessCounts(n) == {0, 1, n} \cap (0..n)

\* variant: a broadcast none of whose deliveries succeeded is answered as an error
AllResponse_strict(n, succ, fail) ==
    IF succ = 0
    THEN [status |-> 500, body |-> [error |-> "No se pudo enviar ninguna notificacion"]]
    ELSE [status |-> 200,
          body |-> [success      |-> TRUE,
                    message      |-> "Notificaciones enviadas",
                    totalUsers   |-> n,
                    successCount |-> succ,
                    failureCount |-> fail]]

\* the return after the loop
AllResponse(n, succ, fail) ==
    [status |-> 200,
     body |-> [success      |-> TRUE,
               message      |-> "Notificaciones enviadas",
               totalUsers   |-> n,
               successCount |-> succ,
               failureCount |-> fail]]

\* variant: the exception of a batch is swallowed inside the loop, the batch is
\* counted as failed and the loop goes on
MulticastRaised_continue(batch) ==
    /\ io' = Append(io, [op |-> "send_multicast", tokens |-> batch, raised |-> TRUE,
                         success_count |-> 0, failure_count |-> 0])
    /\ total_success' = total_success
    /\ total_failure' = total_failure + Len(batch)
    /\ i' = i + batch_size
    /\ IF i' < Len(tokens)
       THEN /\ pc' = "loop"
            /\ UNCHANGED response
       ELSE /\ pc' = "done"
            /\ response' = [status |-> 200,
                            body |-> [success      |-> TRUE,
                                      message      |-> "Notificaciones enviadas",
                                      totalUsers   |-> Len(tokens),
                                      successCount |-> total_success',
                                      failureCount |-> total_failure']]

\* send_multicast raised: the exception leaves the loop for the except branch
MulticastRaised(batch) ==
    /\ io' = Append(io, [op |-> "send_multicast", tokens |-> batch, raised |-> TRUE,
                         success_count |-> 0, failure_count |-> 0])
    /\ Respond(ErrorResponse("all", "DeliveryError"))
    /\ UNCHANGED <<i, total_success, total_failure>>

\* send_multicast returned a BatchResponse with sc successes
MulticastReturned(batch, sc) ==
    /\ io' = Append(io, [op |-> "send_multicast", tokens |-> batch, raised |-> FALSE,
                         success_count |-> sc, failure_count |-> Len(batch) - sc])
    /\ total_success' = total_success + sc
    /\ total_failure' = total_failure + (Len(batch) - sc)
    /\ i' = i + batch_size
    /\ IF i' < Len(tokens)
       THEN /\ pc' = "loop"
            /\ UNCHANGED response
       ELSE Respond(AllResponse(Len(tokens), total_success', total_failure'))

\* one iteration of: for i in range(0, len(tokens), batch_size), and the return
\* that follows the last one
send_to_all_batch ==
    /\ pc = "loop"
    /\ route = "all"
    /\ i < Len(tokens)
    /\ LET batch == Batch(tokens, i)
       IN  \/ MulticastRaised(batch)
           \/ \E sc \in SuccessCounts(Len(batch)) : MulticastReturned(batch, sc)
    /\ UNCHANGED <<usuarios_registrados, route, payload, user_data, tokens>>

send_to_topic_validate == Validate("topic", "send")

\* variant: the topic handler looks the topic up in the collection before sending
TopicOps_lookup(message, raised, result) ==
    <<[op |-> "get", id |-> message.topic.v, raised |-> FALSE],
      [op |-> "send", message |-> message, raised |-> raised, result |-> result]>>

\* the external operations send_to_topic issues after validation
TopicOps(message, raised, result) ==
    <<[op |-> "send", message |-> message, raised |-> raised, result |-> result]>>

\* message = messaging.Message(..., topic=topic, ...); response = messaging.send(message)
send_to_topic_send ==
    /\ pc = "send"
    /\ route = "topic"
    /\ LET message == [topic |-> payload.obj["topic"],
                       title |-> payload.obj["title"],
                       body  |-> payload.obj["body"]]
       IN  \/ /\ io' = io \o TopicOps(message, TRUE, "")
              /\ Respond(ErrorResponse("topic", "DeliveryError"))
           \/ \E mid \in MessageIds :
                /\ io' = io \o TopicOps(message, FALSE, mid)
                /\ Respond([status |-> 200,
                            body |-> [success   |-> TRUE,
                                      message   |-> "Notificacion enviada al topico",
                                      messageId |-> mid,
                                      topic     |-> payload.obj["topic"]]])
    /\ UNCHANGED <<usuarios_registrados, route, payload, user_data, tokens, i,
                   total_success, total_failure>>

\* variant: hasToken is `user_data.get('fcmToken') is not None`
Project_notNone(user) ==
    [id       |-> user.id,
     email    |-> Get(user.fields, "email"),
     hasToken |-> Get(user.fields, "fcmToken") # None]

\* {'id': user.id, 'email': user_data.get('email'), 'hasToken': bool(user_data.get('fcmToken'))}
Project(user) ==
    [id       |-> user.id,
     email    |-> Get(user.fields, "email"),
     hasToken |-> Truthy(Get(user.fields, "fcmToken"))]

\* with_tokens = sum(1 for u in users_list if u['hasToken'])
WithTokens(users_list) == Cardinality({ n \in DOMAIN users_list : users_list[n].hasToken })

\* the response of get_users over the streamed documents
UsersResponse(users) ==
    LET users_list == [n \in DOMAIN users |-> Project(users[n])]
    IN  [status |-> 200,
         body |-> [success    |-> TRUE,
                   total      |-> Len(users_list),
                   withTokens |-> WithTokens(users_list),
                   users      |-> users_list]]

\* users = users_ref.stream(); project; count; return
get_users ==
    /\ pc = "list"
    /\ route = "users"
    /\ \/ /\ io' = Append(io, [op |-> "stream", raised |-> TRUE])
          /\ Respond(ErrorResponse("users", "DirectoryError"))
       \/ /\ io' = Append(io, [op |-> "stream", raised |-> FALSE])
          /\ Respond(UsersResponse(usuarios_registrados))
    /\ UNCHANGED <<usuarios_registrados, route, payload, user_data, tokens, i,
                   total_success, total_failure>>

Next ==
    \/ Receive
    \/ Return
    \/ send_to_user_validate
    \/ send_to_user_lookup
    \/ send_to_user_send
    \/ send_to_all_validate
    \/ send_to_all_query
    \/ send_to_all_batch
    \/ send_to_topic_validate
    \/ send_to_topic_send
    \/ get_users

\* directories of at most MaxUsers documents, of every kind
Spec == Init /\ [][Next]_vars

\* directories sized around the multiples of batch_size
SpecBatch == InitBatch /\ [][Next]_vars

----------------------------------------------------------------------------
(* Vocabulary of the properties *)

Done == pc = "done"

\* the delivery calls and the Directory operations of the current request, in order
Calls == SelectSeq(io, LAMBDA e : e.op \in {"send", "send_multicast"})
DirOps == SelectSeq(io, LAMBDA e : e.op \in {"get", "where", "stream"})

\* no external operation of the current request raised
NoRaise == \A n \in DOMAIN io : ~io[n].raised

\* the request supplies field f as a non-empty string
Supplied(f) ==
    /\ payload.kind = "object"
    /\ f \in DOMAIN payload.obj
    /\ payload.obj[f].t = "str"
    /\ payload.obj[f].v # ""

\* the document's fcmToken is a non-empty string
HasToken(fields) ==
    /\ "fcmToken" \in DOMAIN fields
    /\ fields["fcmToken"].t = "str"
    /\ fields["fcmToken"].v # ""

\* the tokens of the documents that have one, in enumeration order
Eligible ==
    LET docs == SelectSeq(usuarios_registrados, LAMBDA d : HasToken(d.fields))
    IN  [n \in DOMAIN docs |-> docs[n].fields["fcmToken"]]

CeilDiv(n, d) == (n + d - 1) \div d

RECURSIVE Sum(_)
Sum(seq) == IF seq = <<>> THEN 0 ELSE Head(seq) + Sum(Tail(seq))

RECURSIVE Flatten(_)
Flatten(seqs) == IF seqs = <<>> THEN <<>> ELSE Head(seqs) \o Flatten(Tail(seqs))

\* a send-to-all request with title and body, whose query and multicast calls all returned
AllServed ==
    /\ Done
    /\ route = "all"
    /\ Supplied("title")
    /\ Supplied("body")
    /\ NoRaise

----------------------------------------------------------------------------
(* C1: a send-to-all request with title and body, against a Directory with     *)
(* N >= 1 eligible tokens and with no call raising, makes exactly ceil(N/500)  *)
(* multicast calls; the k-th call carries the k-th consecutive slice of at     *)
(* most 500 tokens, the slices concatenate to the whole token sequence, and    *)
(* the response reports totalUsers = N and the sums of the per-call success    *)
(* and failure counts.                                                         *)
C1_Batching ==
    (AllServed /\ Len(Eligible) >= 1) =>
        LET N == Len(Eligible)
        IN  /\ Len(Calls) = CeilDiv(N, 500)
            /\ \A k \in DOMAIN Calls :
                 /\ Calls[k].op = "send_multicast"
                 /\ Calls[k].tokens = SubSeq(Eligible, 500 * (k - 1) + 1, Min(500 * k, N))
                 /\ Len(Calls[k].tokens) \in 1..500
            /\ Flatten([k \in DOMAIN Calls |-> Calls[k].tokens]) = Eligible
            /\ response.status = 200
            /\ response.body.totalUsers = N
            /\ response.body.successCount = Sum([k \in DOMAIN Calls |-> Calls[k].success_count])
            /\ response.body.failureCount = Sum([k \in DOMAIN Calls |-> Calls[k].failure_count])

\* 501 tokens were sent in two calls, of 500 and of 1
C1_Witness ==
    /\ AllServed
    /\ Len(Eligible) = 501
    /\ Len(Calls) = 2
    /\ Len(Calls[2].tokens) = 1
    /\ response.status = 200

(* C5: a send-to-all request with at least one eligible token and no call      *)
(* raising is answered with a success response (success = true, no 4xx/5xx),   *)
(* whatever the per-token results, also when every delivery of every group     *)
(* failed.                                                                     *)
C5_PartialFailureIsSuccess ==
    (AllServed /\ Len(Eligible) >= 1) =>
        /\ response.status = 200
        /\ response.body.success = TRUE
        /\ "error" \notin DOMAIN response.body

\* every delivery of each of several groups failed, and the response is a success
C5_Witness ==
    /\ AllServed
    /\ Len(Calls) >= 2
    /\ \A k \in DOMAIN Calls : Calls[k].success_count = 0
    /\ response.status = 200
    /\ response.body.successCount = 0
    /\ response.body.failureCount = response.body.totalUsers

(* C9: when the multicast call of group k raises, send-to-all issues no        *)
(* further delivery call, answers HTTP 500 with the error detail and without   *)
(* counts, and the calls of groups 1..k-1 stay as made; in every handler no    *)
(* delivery call is attempted twice within a request.                          *)
C9_NoRetryAfterRaise ==
    /\ \A n \in DOMAIN io :
         io[n].raised =>
            /\ n = Len(io)
            /\ Done
            /\ response.status = 500
    /\ (route = "all" /\ Calls # <<>> /\ Calls[Len(Calls)].raised) =>
            /\ response.body = [error |-> "DeliveryError"]
            /\ \A k \in 1..(Len(Calls) - 1) :
                 /\ ~Calls[k].raised
                 /\ Calls[k].tokens = SubSeq(tokens, 500 * (k - 1) + 1, 500 * k)
    /\ route = "all" =>
            \A k, l \in DOMAIN Calls : k # l => Calls[k].tokens # Calls[l].tokens
    /\ route # "all" => Len(Calls) <= 1

\* the second group's call raised after the first group was delivered
C9_Witness ==
    /\ Done
    /\ route = "all"
    /\ Len(Calls) = 2
    /\ ~Calls[1].raised
    /\ Calls[2].raised
    /\ Len(tokens) > 1000
    /\ response.status = 500

----------------------------------------------------------------------------
\* the required fields of the current request's route that the request lacks
MissingFields(r) == { f \in Range(Required(r)) : ~Supplied(f) }

(* C2 (as stated): a send-to-user request lacking one of userId, title, body   *)
(* is answered HTTP 400 with a `required` list of exactly the fields that are  *)
(* missing from it.                                                            *)
C2_ListsExactlyMissing ==
    (Done /\ route = "user" /\ payload.kind = "object" /\ MissingFields("user") # {}) =>
        /\ response.status = 400
        /\ "required" \in DOMAIN response.body
        /\ Range(response.body.required) = MissingFields("user")

(* C2 (amended): a send-to-user request whose body is a JSON object lacking    *)
(* one of userId, title, body is answered HTTP 400 with the fixed `required`   *)
(* list userId, title, body, whichever of them the request supplied.           *)
C2_ListsAllRequired ==
    (Done /\ route = "user" /\ payload.kind = "object" /\ MissingFields("user") # {}) =>
        /\ response.status = 400
        /\ "required" \in DOMAIN response.body
        /\ response.body.required = <<"userId", "title", "body">>
        /\ io = <<>>

\* only body is missing, and the answer still lists userId and title
C2_Witness ==
    /\ Done
    /\ route = "user"
    /\ Supplied("userId")
    /\ Supplied("title")
    /\ ~Supplied("body")
    /\ response.status = 400
    /\ "required" \in DOMAIN response.body

(* C3: on each POST route, a request lacking a required field, whatever the    *)
(* way it lacks it (also a body that is missing, null or no JSON object), is   *)
(* answered HTTP 400 with a body {error, required} and never HTTP 500.         *)
C3_MissingFieldIs400 ==
    (Done /\ route \in {"user", "all", "topic"} /\ MissingFields(route) # {}) =>
        /\ response.status = 400
        /\ DOMAIN response.body = {"error", "required"}

\* the user's document, by the request's userId, when there is one
Records(id) == { n \in DOMAIN usuarios_registrados : usuarios_registrados[n].id = id }

\* a send-to-user request with its three fields, whose lookup and delivery call did not raise
UserServed ==
    /\ Done
    /\ route = "user"
    /\ Supplied("userId")
    /\ Supplied("title")
    /\ Supplied("body")
    /\ NoRaise

(* C4: a send-to-user request with userId, title and body, whose lookup and    *)
(* delivery call do not raise, ends in exactly one of: HTTP 404 when no        *)
(* document has that id; HTTP 400 with the token error when the document has   *)
(* no or an empty fcmToken; a success carrying the backend's message id, the   *)
(* request's userId and the document's email (null when it has none).          *)
C4_LookupOutcomes ==
    UserServed =>
        LET recs == Records(payload.obj["userId"].v)
        IN  IF recs = {}
            THEN /\ response.status = 404
                 /\ Calls = <<>>
            ELSE \A n \in recs :
                   LET fields == usuarios_registrados[n].fields
                   IN  IF ~HasToken(fields)
                       THEN /\ response.status = 400
                            /\ response.body.error = "El usuario no tiene un token FCM"
                            /\ "required" \notin DOMAIN response.body
                       ELSE /\ response.status = 200
                            /\ response.body.success = TRUE
                            /\ Len(Calls) = 1
                            /\ response.body.messageId = Calls[1].result
                            /\ response.body.userId = payload.obj["userId"]
                            /\ response.body.email =
                                 (IF "email" \in DOMAIN fields THEN fields["email"] ELSE None)

\* a success for a user whose document has a token and no email
C4_Witness ==
    /\ UserServed
    /\ response.status = 200
    /\ response.body.email = None
    /\ response.body.messageId \in MessageIds

(* C6: a send-to-topic request issues no Directory operation on any path; only *)
(* send-to-user (a point lookup), send-to-all (a filtered enumeration) and the *)
(* users listing (an enumeration) read the Directory, and no handler writes it.*)
C6_TopicNeverReadsDirectory ==
    /\ [](/\ route = "topic" => DirOps = <<>>
          /\ \A n \in DOMAIN DirOps :
               \/ route = "user" /\ DirOps[n].op = "get"
               \/ route = "all" /\ DirOps[n].op = "where"
               \/ route = "users" /\ DirOps[n].op = "stream")
    /\ [][usuarios_registrados' = usuarios_registrados]_vars

\* a send-to-topic request whose delivery call raised
C6_Witness ==
    /\ Done
    /\ route = "topic"
    /\ Len(io) = 1
    /\ io[1].op = "send"
    /\ io[1].raised
    /\ response.status = 500

(* C7: the users listing returns one projected entry per document, total is    *)
(* the number of documents, withTokens is the number of entries with hasToken, *)
(* and hasToken is true exactly when the document's fcmToken is a non-empty    *)
(* string.                                                                     *)
C7_ListingCounts ==
    (Done /\ route = "users" /\ NoRaise) =>
        /\ response.status = 200
        /\ Len(response.body.users) = Len(usuarios_registrados)
        /\ response.body.total = Len(usuarios_registrados)
        /\ response.body.withTokens =
             Cardinality({ n \in DOMAIN response.body.users : response.body.users[n].hasToken })
        /\ \A n \in DOMAIN usuarios_registrados :
             /\ response.body.users[n].id = usuarios_registrados[n].id
             /\ response.body.users[n].hasToken = HasToken(usuarios_registrados[n].fields)

\* a listing over a document with an empty-string token and one with a token
C7_Witness ==
    /\ Done
    /\ route = "users"
    /\ response.status = 200
    /\ response.body.withTokens = 1
    /\ \E n \in DOMAIN usuarios_registrados :
         /\ "fcmToken" \in DOMAIN usuarios_registrados[n].fields
         /\ usuarios_registrados[n].fields["fcmToken"] = Str("")

(* C8: a send-to-user request makes exactly one delivery call when it          *)
(* succeeds and none when it ends in a validation failure, user not found,     *)
(* missing token or lookup failure; it validates before it looks up and looks  *)
(* up before it delivers; no request changes the Directory.                    *)
C8_OneCallOnSuccess ==
    /\ [](route = "user" =>
            /\ Len(Calls) <= 1
            /\ Len(DirOps) <= 1
            /\ (Done /\ response.status = 200) => Len(Calls) = 1
            /\ (Done /\ response.status \in {400, 404}) => Calls = <<>>
            /\ (Done /\ DirOps # <<>> /\ DirOps[1].raised) => Calls = <<>>
            /\ pc = "validate" => io = <<>>
            /\ io # <<>> =>
                 /\ Supplied("userId") /\ Supplied("title") /\ Supplied("body")
                 /\ io[1].op = "get"
            /\ Calls # <<>> =>
                 /\ Len(io) = 2
                 /\ io[2].op = "send"
                 /\ ~io[1].raised
                 /\ \E n \in Records(payload.obj["userId"].v) :
                      /\ HasToken(usuarios_registrados[n].fields)
                      /\ io[2].message.token = usuarios_registrados[n].fields["fcmToken"])
    /\ [][usuarios_registrados' = usuarios_registrados]_vars

\* a send-to-user request that reached its one delivery call
C8_Witness ==
    /\ Done
    /\ route = "user"
    /\ response.status = 200
    /\ Len(Calls) = 1
    /\ Len(DirOps) = 1

\* the tokens carried by the multicast calls of the current request
SentTokens == UNION { Range(Calls[k].tokens) : k \in DOMAIN Calls }

(* C10: against the same Directory, the recipients of send-to-all are exactly  *)
(* the documents the users listing marks hasToken: a document whose fcmToken   *)
(* is missing, null or empty contributes no token, totalUsers equals the       *)
(* listing's withTokens, and when that is zero send-to-all answers HTTP 400    *)
(* without a delivery call.                                                    *)
C10_RecipientsAreListedTokens ==
    route = "all" =>
        LET listing == UsersResponse(usuarios_registrados).body
            marked == { usuarios_registrados[n].fields["fcmToken"] :
                          n \in { m \in DOMAIN listing.users : listing.users[m].hasToken } }
        IN  /\ SentTokens \subseteq marked
            /\ None \notin SentTokens /\ Str("") \notin SentTokens
            /\ (AllServed /\ listing.withTokens > 0) =>
                 /\ response.status = 200
                 /\ SentTokens = marked
                 /\ response.body.totalUsers = listing.withTokens
            /\ (AllServed /\ listing.withTokens = 0) =>
                 /\ response.status = 400
                 /\ Calls = <<>>

\* a broadcast over a Directory that also holds a document with an empty token
C10_Witness ==
    /\ AllServed
    /\ response.status = 200
    /\ response.body.totalUsers = 1
    /\ \E n \in DOMAIN usuarios_registrados :
         /\ "fcmToken" \in DOMAIN usuarios_registrados[n].fields
         /\ usuarios_registrados[n].fields["fcmToken"] = Str("")

====
